---- MODULE Spec2Model ----
(***************************************************************************)
(* Bookstore backend: the subscription lifecycle (routes/subscription,     *)
(* routes/admin-subscriptions, models/Subscription.js) and the role and    *)
(* permission gates (middleware/adminAuth.js, routes/admin.js).            *)
(*                                                                         *)
(* Time is counted in days: the code adds duration*24*60*60*1000 ms to a   *)
(* Date, and every duration and extension the model uses is a whole number *)
(* of days.                                                                *)
(***************************************************************************)
EXTENDS Integers, FiniteSets, Sequences, TLC

VARIABLES users, subs, nextId, now, reqs, resp

vars == <<users, subs, nextId, now, reqs, resp>>

(***************************************************************************)
(* Bounds of the model.                                                    *)
(***************************************************************************)
\* subscription records ever created
MaxSubs == 2
\* clock advances, each of half a plan duration
MaxTicks == 3
\* requests in flight at once
MaxReq == 2

\* the principals; those of Subscribers are the ones that send subscription requests
Users == {"u1", "u2", "u3", "u4"}
Subscribers == {"u3", "u4"}
SubIds == 1..MaxSubs
Slots == 1..MaxReq

(***************************************************************************)
(* models/Subscription.js                                                  *)
(***************************************************************************)
Statuses == {"active", "expired", "cancelled", "pending"}

ValidPlans == {"basic", "standard", "premium"}

\* getPlans()[plan].duration, in days
PlanDuration(plan) ==
  CASE plan = "basic" -> 30
    [] plan = "standard" -> 30
    [] plan = "premium" -> 30

\* the clock's grain: half a plan duration
Step == PlanDuration("basic") \div 2

\* the latest end date an extension may reach
Horizon == (MaxTicks + 1) * Step

\* mutant of IsActive: the stored status alone
IsActiveStored(s, t) == s.status = "active"

\* virtual isActive: status === 'active' && endDate > new Date()
IsActive(s, t) == s.status = "active" /\ s.endDate > t

(***************************************************************************)
(* The queries the subscription routes issue.                              *)
(***************************************************************************)
\* mutants of FindActiveUnexpired: $lt for $gt; the endDate condition left out
FindActiveUnexpiredLt(S, u, t) ==
  {i \in DOMAIN S : S[i].user = u /\ S[i].status = "active" /\ S[i].endDate < t}

FindActiveAnyEnd(S, u, t) ==
  {i \in DOMAIN S : S[i].user = u /\ S[i].status = "active"}

\* the documents matching {user, status: 'active', endDate: {$gt: t}}
FindActiveUnexpired(S, u, t) ==
  {i \in DOMAIN S : S[i].user = u /\ S[i].status = "active" /\ S[i].endDate > t}

\* mutant of FindActive: the status condition left out
FindAnyStatus(S, u) ==
  {i \in DOMAIN S : S[i].user = u}

\* the documents matching {user, status: 'active'}
FindActive(S, u) ==
  {i \in DOMAIN S : S[i].user = u /\ S[i].status = "active"}

\* findOne: one matching document (0 for null); which one of several is the store's choice
FindOne(matches) == IF matches = {} THEN {0} ELSE matches

\* new Subscription({user, plan, status: 'active', startDate, endDate}); autoRenew defaults to true
NewSubscription(u, plan, t) ==
  [user |-> u, plan |-> plan, status |-> "active", startDate |-> t,
   endDate |-> t + PlanDuration(plan), autoRenew |-> TRUE]

\* a store with document i added (or replaced)
Put(S, i, doc) == [j \in (DOMAIN S) \cup {i} |-> IF j = i THEN doc ELSE S[j]]

\* a store without the documents of ids
Remove(S, ids) == [j \in (DOMAIN S) \ ids |-> S[j]]

(***************************************************************************)
(* Requests and responses.  A handler that awaits the store between its    *)
(* read and its write is two steps; reqs[r] holds what the handler has     *)
(* read so far.  resp is the response a handler has just sent; Deliver     *)
(* takes it off the wire, and the next step starts after that.             *)
(***************************************************************************)
Idle == [op |-> "idle", user |-> "", plan |-> "", doc |-> 0, flag |-> FALSE, loaded |-> FALSE]

Request(op, u, plan, doc, flag, loaded) ==
  [op |-> op, user |-> u, plan |-> plan, doc |-> doc, flag |-> flag, loaded |-> loaded]

Response(op, code, msg) == [op |-> op, code |-> code, msg |-> msg]

NoResponse == Response("", 0, "")

\* what a handler leaves: the store, the next free id and the response
Outcome(S, n, r) == [subs |-> S, nextId |-> n, resp |-> r]

Apply(out) ==
  /\ subs' = out.subs
  /\ nextId' = out.nextId
  /\ resp' = out.resp
  /\ UNCHANGED <<users, now>>

Ready == resp = NoResponse

AllIdle == \A r \in Slots : reqs[r].op = "idle"

\* the slot a new request takes: the lowest idle one
FreeSlot(r) == reqs[r].op = "idle" /\ \A q \in Slots : q < r => reqs[q].op # "idle"

Deliver ==
  /\ resp # NoResponse
  /\ resp' = NoResponse
  /\ UNCHANGED <<users, subs, nextId, now, reqs>>

(***************************************************************************)
(* POST /subscribe                                                         *)
(***************************************************************************)
\* plan of req.body: a plan of the table, an unknown one, none
PlanInputs == ValidPlans \cup {"gold", ""}

\* the same with one plan of the table, for the larger specifications
FewPlans == {"standard", "gold", ""}

\* !plan || !['basic', 'standard', 'premium'].includes(plan)
InvalidPlan(plan) == plan = "" \/ plan \notin ValidPlans

\* mutants of SubscribeTail: the answer of findOne ignored; the query asked again before the write
SubscribeTailNoCheck(S, n, t, u, plan, existing) ==
  Outcome(Put(S, n, NewSubscription(u, plan, t)), n + 1,
          Response("subscribe", 201, "Subscription created successfully"))

SubscribeTailRecheck(S, n, t, u, plan, existing) ==
  IF existing \/ FindActiveUnexpired(S, u, t) # {}
    THEN Outcome(S, n, Response("subscribe", 400, "You already have an active subscription"))
    ELSE Outcome(Put(S, n, NewSubscription(u, plan, t)), n + 1,
                 Response("subscribe", 201, "Subscription created successfully"))

\* the handler from the answer of findOne on: existing tells whether a document was found
SubscribeTail(S, n, t, u, plan, existing) ==
  IF existing
    THEN Outcome(S, n, Response("subscribe", 400, "You already have an active subscription"))
    ELSE Outcome(Put(S, n, NewSubscription(u, plan, t)), n + 1,
                 Response("subscribe", 201, "Subscription created successfully"))

\* the whole handler, findOne answering e
SubscribeHandler(S, n, t, u, plan, e) ==
  IF InvalidPlan(plan)
    THEN Outcome(S, n, Response("subscribe", 400, "Invalid subscription plan"))
    ELSE SubscribeTail(S, n, t, u, plan, e # 0)

\* a handler's outcome fits the store's size
Fits(out) == out.nextId <= MaxSubs + 1

Subscribe(u, plan) ==
  /\ Ready /\ AllIdle
  /\ UNCHANGED reqs
  /\ \E e \in FindOne(FindActiveUnexpired(subs, u, now)) :
       /\ Fits(SubscribeHandler(subs, nextId, now, u, plan, e))
       /\ Apply(SubscribeHandler(subs, nextId, now, u, plan, e))

\* up to the answer of findOne
SubscribeFind(r, u, plan) ==
  /\ Ready /\ FreeSlot(r)
  /\ IF InvalidPlan(plan)
       THEN Apply(SubscribeHandler(subs, nextId, now, u, plan, 0)) /\ UNCHANGED reqs
       ELSE /\ \E e \in FindOne(FindActiveUnexpired(subs, u, now)) :
                 reqs' = [reqs EXCEPT ![r] = Request("subscribe", u, plan, 0, e # 0, FALSE)]
            /\ UNCHANGED <<users, subs, nextId, now, resp>>

\* from the answer of findOne to the response
SubscribeSave(r) ==
  /\ Ready
  /\ reqs[r].op = "subscribe"
  /\ Fits(SubscribeTail(subs, nextId, now, reqs[r].user, reqs[r].plan, reqs[r].flag))
  /\ Apply(SubscribeTail(subs, nextId, now, reqs[r].user, reqs[r].plan, reqs[r].flag))
  /\ reqs' = [reqs EXCEPT ![r] = Idle]

(***************************************************************************)
(* PUT /cancel                                                             *)
(***************************************************************************)
\* the autoRenew of the document findOne answered
Loaded(S, d) == IF d = 0 THEN FALSE ELSE S[d].autoRenew

\* mutant of CancelTail: the document removed instead of updated
CancelTailRemove(S, n, u, d, loaded) ==
  IF d = 0
    THEN Outcome(S, n, Response("cancel", 404, "No active subscription found"))
    ELSE Outcome([j \in (DOMAIN S) \ {d} |-> S[j]],
                 n, Response("cancel", 200, "Subscription cancelled successfully"))

\* the handler from the answer d of findOne on (0 for none).  save() of a
\* loaded document writes the paths whose value changed since it was loaded;
\* a document deleted in between makes save() throw
CancelTail(S, n, u, d, loaded) ==
  IF d = 0
    THEN Outcome(S, n, Response("cancel", 404, "No active subscription found"))
    ELSE IF d \notin DOMAIN S
      THEN Outcome(S, n, Response("cancel", 500, "Server error"))
      ELSE Outcome([S EXCEPT ![d].status = "cancelled",
                             ![d].autoRenew = IF loaded = FALSE THEN @ ELSE FALSE],
                   n, Response("cancel", 200, "Subscription cancelled successfully"))

Cancel(u) ==
  /\ Ready /\ AllIdle
  /\ UNCHANGED reqs
  /\ \E d \in FindOne(FindActive(subs, u)) : Apply(CancelTail(subs, nextId, u, d, Loaded(subs, d)))

CancelFind(r, u) ==
  /\ Ready /\ FreeSlot(r)
  /\ \E d \in FindOne(FindActive(subs, u)) :
       reqs' = [reqs EXCEPT ![r] = Request("cancel", u, "", d, FALSE, Loaded(subs, d))]
  /\ UNCHANGED <<users, subs, nextId, now, resp>>

CancelSave(r) ==
  /\ Ready
  /\ reqs[r].op = "cancel"
  /\ Apply(CancelTail(subs, nextId, reqs[r].user, reqs[r].doc, reqs[r].loaded))
  /\ reqs' = [reqs EXCEPT ![r] = Idle]

(***************************************************************************)
(* PUT /auto-renew                                                         *)
(***************************************************************************)
\* mutant of AutoRenewTail: the flag written to every record of the principal stored as active
AutoRenewTailMany(S, n, u, d, flag, loaded) ==
  IF d = 0
    THEN Outcome(S, n, Response("autoRenew", 404, "No active subscription found"))
    ELSE Outcome([i \in DOMAIN S |->
                    IF S[i].user = u /\ S[i].status = "active"
                      THEN [S[i] EXCEPT !.autoRenew = flag] ELSE S[i]],
                 n, Response("autoRenew", 200, "Auto-renew setting updated successfully"))

\* the handler from the answer d of findOne on (0 for none)
AutoRenewTail(S, n, u, d, flag, loaded) ==
  IF d = 0
    THEN Outcome(S, n, Response("autoRenew", 404, "No active subscription found"))
    ELSE IF d \notin DOMAIN S
      THEN Outcome(S, n, Response("autoRenew", 500, "Server error"))
      ELSE Outcome([S EXCEPT ![d].autoRenew = IF loaded = flag THEN @ ELSE flag],
                   n, Response("autoRenew", 200, "Auto-renew setting updated successfully"))

SetAutoRenew(u, flag) ==
  /\ Ready /\ AllIdle
  /\ UNCHANGED reqs
  /\ \E d \in FindOne(FindActive(subs, u)) :
       Apply(AutoRenewTail(subs, nextId, u, d, flag, Loaded(subs, d)))

AutoRenewFind(r, u, flag) ==
  /\ Ready /\ FreeSlot(r)
  /\ \E d \in FindOne(FindActive(subs, u)) :
       reqs' = [reqs EXCEPT ![r] = Request("autoRenew", u, "", d, flag, Loaded(subs, d))]
  /\ UNCHANGED <<users, subs, nextId, now, resp>>

AutoRenewSave(r) ==
  /\ Ready
  /\ reqs[r].op = "autoRenew"
  /\ Apply(AutoRenewTail(subs, nextId, reqs[r].user, reqs[r].doc, reqs[r].flag, reqs[r].loaded))
  /\ reqs' = [reqs EXCEPT ![r] = Idle]

(***************************************************************************)
(* The passage of time: new Date() grows between requests and between the  *)
(* steps of one.                                                           *)
(***************************************************************************)
TickDays == {Step, 2 * Step}

Tick(d) ==
  /\ Ready
  /\ now + d <= MaxTicks * Step
  /\ now' = now + d
  /\ UNCHANGED <<users, subs, nextId, reqs, resp>>

(***************************************************************************)
(* middleware/adminAuth.js                                                 *)
(***************************************************************************)
Roles == {"user", "admin", "manager", "staff"}

Tags == {"view_dashboard", "manage_books", "manage_orders", "manage_users",
         "view_analytics", "manage_settings", "export_data", "manage_permissions"}

\* a stored permissions value: a list of tags, no value at all, or a value that is no list
List(tags) == [kind |-> "list", tags |-> tags]
Missing == [kind |-> "missing", tags |-> {}]
NotList == [kind |-> "notlist", tags |-> {}]

User(role, perms) == [role |-> role, perms |-> perms, isActive |-> TRUE]

\* adminAuth: 401 for a token whose user is gone, 403 for a role outside the three, else next()
AdminAuth(U, uid) ==
  IF uid \notin DOMAIN U THEN 401
  ELSE IF U[uid].role \notin {"admin", "manager", "staff"} THEN 403
  ELSE 200

AuthMessage(code) ==
  IF code = 401 THEN "Invalid token." ELSE "Access denied. Admin role required."

(***************************************************************************)
(* The admin subscription routes, each behind adminAuth.                   *)
(***************************************************************************)
\* a route behind adminAuth: the handler's outcome, or the middleware's refusal
Guarded(op, actor, S, n, out) ==
  IF AdminAuth(users, actor) # 200
    THEN Outcome(S, n, Response(op, AdminAuth(users, actor), AuthMessage(AdminAuth(users, actor))))
    ELSE out

StatusInputs == Statuses \cup {"paused"}

\* PUT /:id/status
SetStatusHandler(S, n, actor, id, status) ==
  IF status \notin Statuses
    THEN Outcome(S, n, Response("setStatus", 400, "Invalid status"))
    ELSE IF id \notin DOMAIN S
      THEN Outcome(S, n, Response("setStatus", 404, "Subscription not found"))
      ELSE Outcome([S EXCEPT ![id].status = status], n,
                   Response("setStatus", 200, "Subscription status updated successfully"))

SetStatus(actor, id, status) ==
  /\ Ready /\ AllIdle
  /\ UNCHANGED reqs
  /\ Apply(Guarded("setStatus", actor, subs, nextId, SetStatusHandler(subs, nextId, actor, id, status)))

\* days of req.body: a number, or nothing
Days(k) == [given |-> TRUE, n |-> k]
NoDays == [given |-> FALSE, n |-> 0]
DaysInputs == {Days(Step), Days(0), Days(-1), NoDays}

\* !days || days <= 0
InvalidDays(days) == ~days.given \/ days.n = 0 \/ days.n <= 0

\* mutants of ExtendHandler: the days taken off the end date; the status set to active as well
ExtendHandlerBack(S, n, actor, id, days) ==
  IF InvalidDays(days)
    THEN Outcome(S, n, Response("extend", 400, "Invalid number of days"))
    ELSE IF id \notin DOMAIN S
      THEN Outcome(S, n, Response("extend", 404, "Subscription not found"))
      ELSE Outcome([S EXCEPT ![id].endDate = @ - days.n], n,
                   Response("extend", 200, "Subscription extended by " \o ToString(days.n) \o " days"))

ExtendHandlerRevive(S, n, actor, id, days) ==
  IF InvalidDays(days)
    THEN Outcome(S, n, Response("extend", 400, "Invalid number of days"))
    ELSE IF id \notin DOMAIN S
      THEN Outcome(S, n, Response("extend", 404, "Subscription not found"))
      ELSE Outcome([S EXCEPT ![id].endDate = @ + days.n, ![id].status = "active"], n,
                   Response("extend", 200, "Subscription extended by " \o ToString(days.n) \o " days"))

\* PUT /:id/extend
ExtendHandler(S, n, actor, id, days) ==
  IF InvalidDays(days)
    THEN Outcome(S, n, Response("extend", 400, "Invalid number of days"))
    ELSE IF id \notin DOMAIN S
      THEN Outcome(S, n, Response("extend", 404, "Subscription not found"))
      ELSE Outcome([S EXCEPT ![id].endDate = @ + days.n], n,
                   Response("extend", 200, "Subscription extended by " \o ToString(days.n) \o " days"))

\* an end date the handler moved stays within the model's range
InRange(out) ==
  \A i \in DOMAIN out.subs : out.subs[i].endDate # subs[i].endDate => out.subs[i].endDate <= Horizon

Extend(actor, id, days) ==
  /\ Ready /\ AllIdle
  /\ UNCHANGED reqs
  /\ InRange(Guarded("extend", actor, subs, nextId, ExtendHandler(subs, nextId, actor, id, days)))
  /\ Apply(Guarded("extend", actor, subs, nextId, ExtendHandler(subs, nextId, actor, id, days)))

\* DELETE /:id
DeleteHandler(S, n, actor, id) ==
  IF id \notin DOMAIN S
    THEN Outcome(S, n, Response("delete", 404, "Subscription not found"))
    ELSE Outcome(Remove(S, {id}), n, Response("delete", 200, "Subscription deleted successfully"))

DeleteSubscription(actor, id) ==
  /\ Ready /\ AllIdle
  /\ UNCHANGED reqs
  /\ Apply(Guarded("delete", actor, subs, nextId, DeleteHandler(subs, nextId, actor, id)))

\* action of req.body: one of the three, an unknown one, none
BulkActions == {"cancel", "activate", "delete", "archive", ""}

\* POST /bulk: updateMany / deleteMany over {_id: {$in: ids}}; ids is an array
BulkHandler(S, n, actor, action, ids) ==
  CASE action = "" ->
         Outcome(S, n, Response("bulk", 400, "Invalid request data"))
    [] action = "cancel" ->
         Outcome([i \in DOMAIN S |->
                    IF i \in ids THEN [S[i] EXCEPT !.status = "cancelled", !.autoRenew = FALSE]
                                 ELSE S[i]],
                 n, Response("bulk", 200, "Bulk cancel completed successfully"))
    [] action = "activate" ->
         Outcome([i \in DOMAIN S |-> IF i \in ids THEN [S[i] EXCEPT !.status = "active"] ELSE S[i]],
                 n, Response("bulk", 200, "Bulk activate completed successfully"))
    [] action = "delete" ->
         Outcome(Remove(S, ids), n, Response("bulk", 200, "Bulk delete completed successfully"))
    [] OTHER ->
         Outcome(S, n, Response("bulk", 400, "Invalid action"))

Bulk(actor, action, ids) ==
  /\ Ready /\ AllIdle
  /\ UNCHANGED reqs
  /\ Apply(Guarded("bulk", actor, subs, nextId, BulkHandler(subs, nextId, actor, action, ids)))

(***************************************************************************)
(* The start: an empty subscription store, and four principals, one of     *)
(* each role with the role's default permissions.                          *)
(***************************************************************************)
Empty == [i \in {} |-> Idle]

\* the permissions a role gets by default (routes/admin.js)
DefaultPermissions(role) ==
  CASE role = "admin" -> Tags
    [] role = "manager" -> {"view_dashboard", "manage_books", "manage_orders", "view_analytics", "export_data"}
    [] role = "staff" -> {"view_dashboard", "manage_books", "manage_orders"}
    [] OTHER -> {}

InitialRole(u) ==
  CASE u = "u1" -> "admin"
    [] u = "u2" -> "manager"
    [] u = "u3" -> "staff"
    [] OTHER -> "user"

Init ==
  /\ users = [u \in Users |-> User(InitialRole(u), List(DefaultPermissions(InitialRole(u))))]
  /\ subs = Empty
  /\ nextId = 1
  /\ now = 0
  /\ reqs = [r \in Slots |-> Idle]
  /\ resp = NoResponse

(***************************************************************************)
(* Spec: every request handled in one step.                                *)
(***************************************************************************)
UserRequests(plans) ==
  \/ \E u \in Subscribers, plan \in plans : Subscribe(u, plan)
  \/ \E u \in Subscribers : Cancel(u)
  \/ \E u \in Subscribers, flag \in BOOLEAN : SetAutoRenew(u, flag)

AdminRequests ==
  \/ \E a \in Users, id \in SubIds, status \in StatusInputs : SetStatus(a, id, status)
  \/ \E a \in Users, id \in SubIds, days \in DaysInputs : Extend(a, id, days)
  \/ \E a \in Users, id \in SubIds : DeleteSubscription(a, id)
  \/ \E a \in Users, action \in BulkActions, ids \in SUBSET SubIds : Bulk(a, action, ids)

Next ==
  \/ UserRequests(FewPlans)
  \/ AdminRequests
  \/ \E d \in TickDays : Tick(d)
  \/ Deliver

Spec == Init /\ [][Next]_vars

(***************************************************************************)
(* SpecUser: the principals' requests alone, each handled in one step.     *)
(***************************************************************************)
NextUser ==
  \/ UserRequests(PlanInputs)
  \/ \E d \in TickDays : Tick(d)
  \/ Deliver

SpecUser == Init /\ [][NextUser]_vars

(***************************************************************************)
(* SpecRace: the principals' requests alone, the steps of up to MaxReq of  *)
(* them interleaving.                                                      *)
(***************************************************************************)
NextRace ==
  \/ \E r \in Slots, u \in Subscribers, plan \in FewPlans : SubscribeFind(r, u, plan)
  \/ \E r \in Slots : SubscribeSave(r)
  \/ \E r \in Slots, u \in Subscribers : CancelFind(r, u)
  \/ \E r \in Slots : CancelSave(r)
  \/ \E r \in Slots, u \in Subscribers, flag \in BOOLEAN : AutoRenewFind(r, u, flag)
  \/ \E r \in Slots : AutoRenewSave(r)
  \/ \E d \in TickDays : Tick(d)
  \/ Deliver

SpecRace == Init /\ [][NextRace]_vars

(***************************************************************************)
(* routes/admin.js behind adminAuth and requirePermission.  A request is   *)
(* three steps: adminAuth loads the actor (req.user), the route's gate,    *)
(* validation and guard run on that copy and the handler loads the target, *)
(* and save() writes the paths the handler changed.                        *)
(***************************************************************************)
\* mutants of RequirePermission: no bypass for the admin role; every principal let through
RequirePermissionNoBypass(user, tag) ==
  IF user.perms.kind # "list" THEN 403
  ELSE IF tag \notin user.perms.tags THEN 403
  ELSE 200

RequirePermissionOpen(user, tag) == 200

\* requirePermission(tag) on req.user: 200 for next(), 403 for the refusal
RequirePermission(user, tag) ==
  IF user.role = "admin" THEN 200
  ELSE IF user.perms.kind # "list"
    THEN (IF user.role = "admin" THEN 200 ELSE 403)
    ELSE IF tag \notin user.perms.tags THEN 403
    ELSE 200

GateMessage(tag) == "Access denied. Required permission: " \o tag

\* a request past adminAuth: snap is req.user
Authenticated(a, snap) == [op |-> "authed", user |-> a, snap |-> snap]

\* a role change past findById: as is req.user.role, loaded the target as read,
\* role and perms the body
RoleRequest(a, as, target, loaded, role, perms) ==
  [op |-> "role", user |-> a, as |-> as, target |-> target, loaded |-> loaded,
   role |-> role, perms |-> perms]

\* the principals that send admin requests, and the ids they name
AuthActors == {"u1", "u2", "u4"}
Targets == {"u1", "u2", "u0"}

\* role and permissions of req.body
RoleInputs == {"admin", "staff", "root"}
PermissionInputs == {Missing, List({"manage_permissions"}), NotList}

\* adminAuth, up to next()
Authenticate(r, a) ==
  /\ Ready /\ FreeSlot(r)
  /\ IF AdminAuth(users, a) # 200
       THEN /\ resp' = Response("auth", AdminAuth(users, a), AuthMessage(AdminAuth(users, a)))
            /\ UNCHANGED reqs
       ELSE /\ reqs' = [reqs EXCEPT ![r] = Authenticated(a, users[a])]
            /\ UNCHANGED resp
  /\ UNCHANGED <<users, subs, nextId, now>>

\* a route that reads: GET /dashboard, /books, /orders, /users, /analytics, /roles, ...
AdminGet(r, tag) ==
  /\ Ready
  /\ reqs[r].op = "authed"
  /\ resp' = IF RequirePermission(reqs[r].snap, tag) = 200
               THEN Response("get", 200, "")
               ELSE Response("get", 403, GateMessage(tag))
  /\ reqs' = [reqs EXCEPT ![r] = Idle]
  /\ UNCHANGED <<users, subs, nextId, now>>

\* body('role').isIn([...]), body('permissions').optional().isArray()
InvalidRoleBody(role, perms) == role \notin Roles \/ perms.kind = "notlist"

\* req.user._id.toString() === userId && req.user.role === 'admin' && role !== 'admin'
SelfDemotion(a, snap, target, role) == a = target /\ snap.role = "admin" /\ role # "admin"

\* PUT /users/:id/role up to the answer of findById: the response it sends, or none
RoleFindResponse(U, a, snap, target, role, perms) ==
  IF RequirePermission(snap, "manage_permissions") # 200
    THEN Response("role", 403, GateMessage("manage_permissions"))
  ELSE IF InvalidRoleBody(role, perms)
    THEN Response("role", 400, "validation")
  ELSE IF SelfDemotion(a, snap, target, role)
    THEN Response("role", 400, "Cannot demote yourself from admin role")
  ELSE IF target \notin DOMAIN U
    THEN Response("role", 404, "User not found")
  ELSE NoResponse

RoleFind(r, target, role, perms) ==
  /\ Ready
  /\ reqs[r].op = "authed"
  /\ resp' = RoleFindResponse(users, reqs[r].user, reqs[r].snap, target, role, perms)
  /\ reqs' = [reqs EXCEPT ![r] =
                IF resp' = NoResponse
                  THEN RoleRequest(reqs[r].user, reqs[r].snap.role, target, users[target], role, perms)
                  ELSE Idle]
  /\ UNCHANGED <<users, subs, nextId, now>>

\* mutant of NewPermissions: an empty list taken for no list
NewPermissionsNonEmpty(role, perms) ==
  IF perms.kind = "list" /\ perms.tags # {} THEN perms ELSE List(DefaultPermissions(role))

\* permissions || defaultPermissions
NewPermissions(role, perms) ==
  IF perms.kind = "list" THEN perms ELSE List(DefaultPermissions(role))

\* user.role = role; user.permissions = ...; save(): the paths whose value
\* changed since the document was loaded are written
RoleWrite(U, target, loaded, role, perms) ==
  [U EXCEPT ![target].role = IF role = loaded.role THEN @ ELSE role,
            ![target].perms = IF NewPermissions(role, perms) = loaded.perms
                                THEN @ ELSE NewPermissions(role, perms)]

RoleSave(r) ==
  /\ Ready
  /\ reqs[r].op = "role"
  /\ IF reqs[r].target \in DOMAIN users
       THEN /\ users' = RoleWrite(users, reqs[r].target, reqs[r].loaded, reqs[r].role, reqs[r].perms)
            /\ resp' = Response("role", 200, "User role updated successfully")
       ELSE /\ users' = users
            /\ resp' = Response("role", 500, "Server error")
  /\ reqs' = [reqs EXCEPT ![r] = Idle]
  /\ UNCHANGED <<subs, nextId, now>>

\* the stored permissions of an account older than the permissions field
LegacyPermissions == {Missing, List({}), NotList}

\* the four principals, the admin's and the manager's permissions as created
\* (create-admin.js, the role's defaults) or as an older account holds them
InitAuth ==
  /\ \E pa \in {List(DefaultPermissions("admin"))} \cup LegacyPermissions,
        pm \in {List(DefaultPermissions("manager")), Missing} :
       users = [u \in Users |->
                  IF u = "u1" THEN User("admin", pa)
                  ELSE IF u = "u2" THEN User("manager", pm)
                  ELSE User(InitialRole(u), List(DefaultPermissions(InitialRole(u))))]
  /\ subs = Empty
  /\ nextId = 1
  /\ now = 0
  /\ reqs = [r \in Slots |-> Idle]
  /\ resp = NoResponse

NextAuth ==
  \/ \E r \in Slots, a \in AuthActors : Authenticate(r, a)
  \/ \E r \in Slots, tag \in Tags : AdminGet(r, tag)
  \/ \E r \in Slots, target \in Targets, role \in RoleInputs, perms \in PermissionInputs :
       RoleFind(r, target, role, perms)
  \/ \E r \in Slots : RoleSave(r)
  \/ Deliver

SpecAuth == InitAuth /\ [][NextAuth]_vars

(***************************************************************************)
(* SpecRoles: the role-change requests alone, one at a time, with every    *)
(* role and an empty list among the inputs.                                *)
(***************************************************************************)
AllRoleInputs == Roles \cup {"root"}
AllPermissionInputs == PermissionInputs \cup {List({})}

NextRoles ==
  \/ \E a \in AuthActors : Authenticate(1, a)
  \/ \E target \in Targets, role \in AllRoleInputs, perms \in AllPermissionInputs :
       RoleFind(1, target, role, perms)
  \/ RoleSave(1)
  \/ Deliver

SpecRoles == InitAuth /\ [][NextRoles]_vars

(***************************************************************************)
(* DELETE /users/:id and PUT /users/:id/status, behind adminAuth and the   *)
(* manage_users gate.                                                      *)
(***************************************************************************)
\* a request on a user past findById: as is req.user.role, loaded the target as read
UserRequest(op, a, as, target, loaded, flag) ==
  [op |-> op, user |-> a, as |-> as, target |-> target, loaded |-> loaded, flag |-> flag]

\* isActive of req.body: a boolean, or something else
Flag(b) == [given |-> TRUE, value |-> b]
NoFlag == [given |-> FALSE, value |-> FALSE]
FlagInputs == {Flag(TRUE), Flag(FALSE), NoFlag}

\* DELETE /users/:id up to the answer of findById: the response it sends, or none
DeleteUserFindResponse(U, snap, target) ==
  IF RequirePermission(snap, "manage_users") # 200
    THEN Response("deleteUser", 403, GateMessage("manage_users"))
  ELSE IF target \notin DOMAIN U
    THEN Response("deleteUser", 404, "User not found")
  ELSE IF U[target].role = "admin"
    THEN Response("deleteUser", 403, "Cannot delete admin users")
  ELSE NoResponse

DeleteUserFind(r, target) ==
  /\ Ready
  /\ reqs[r].op = "authed"
  /\ resp' = DeleteUserFindResponse(users, reqs[r].snap, target)
  /\ reqs' = [reqs EXCEPT ![r] =
                IF resp' = NoResponse
                  THEN UserRequest("deleteUser", reqs[r].user, reqs[r].snap.role, target,
                                   users[target], FALSE)
                  ELSE Idle]
  /\ UNCHANGED <<users, subs, nextId, now>>

\* from Order.countDocuments on: hasOrders tells whether it counted any
DeleteUserDelete(r, hasOrders) ==
  /\ Ready
  /\ reqs[r].op = "deleteUser"
  /\ IF hasOrders
       THEN /\ users' = users
            /\ resp' = Response("deleteUser", 400,
                                 "Cannot delete user with existing orders. Consider deactivating instead.")
       ELSE /\ users' = [u \in (DOMAIN users) \ {reqs[r].target} |-> users[u]]
            /\ resp' = Response("deleteUser", 200, "User deleted successfully")
  /\ reqs' = [reqs EXCEPT ![r] = Idle]
  /\ UNCHANGED <<subs, nextId, now>>

\* PUT /users/:id/status up to the answer of findById: the response it sends, or none
UserStatusFindResponse(U, snap, target, flag) ==
  IF RequirePermission(snap, "manage_users") # 200
    THEN Response("userStatus", 403, GateMessage("manage_users"))
  ELSE IF ~flag.given
    THEN Response("userStatus", 400, "validation")
  ELSE IF target \notin DOMAIN U
    THEN Response("userStatus", 404, "User not found")
  ELSE IF U[target].role = "admin"
    THEN Response("userStatus", 403, "Cannot modify admin user status")
  ELSE NoResponse

UserStatusFind(r, target, flag) ==
  /\ Ready
  /\ reqs[r].op = "authed"
  /\ resp' = UserStatusFindResponse(users, reqs[r].snap, target, flag)
  /\ reqs' = [reqs EXCEPT ![r] =
                IF resp' = NoResponse
                  THEN UserRequest("userStatus", reqs[r].user, reqs[r].snap.role, target,
                                   users[target], flag.value)
                  ELSE Idle]
  /\ UNCHANGED <<users, subs, nextId, now>>

\* user.isActive = isActive; save()
UserStatusSave(r) ==
  /\ Ready
  /\ reqs[r].op = "userStatus"
  /\ IF reqs[r].target \in DOMAIN users
       THEN /\ users' = [users EXCEPT ![reqs[r].target].isActive =
                           IF reqs[r].flag = reqs[r].loaded.isActive THEN @ ELSE reqs[r].flag]
            /\ resp' = Response("userStatus", 200,
                                 IF reqs[r].flag THEN "User activated successfully"
                                                 ELSE "User deactivated successfully")
       ELSE /\ users' = users
            /\ resp' = Response("userStatus", 500, "Server error")
  /\ reqs' = [reqs EXCEPT ![r] = Idle]
  /\ UNCHANGED <<subs, nextId, now>>

(***************************************************************************)
(* SpecAdmins: role changes, user deletions and user status changes, the   *)
(* steps of up to MaxReq requests interleaving, from the store with one    *)
(* admin.                                                                  *)
(***************************************************************************)
Admins == {"u1", "u2"}
Managed == {"u1", "u2"}

NextAdmins ==
  \/ \E r \in Slots, a \in Admins : Authenticate(r, a)
  \/ \E r \in Slots, target \in Admins, role \in {"admin", "staff"},
        perms \in {List({"manage_permissions"})} :
       RoleFind(r, target, role, perms)
  \/ \E r \in Slots : RoleSave(r)
  \/ \E r \in Slots, target \in Managed : DeleteUserFind(r, target)
  \/ \E r \in Slots, hasOrders \in BOOLEAN : DeleteUserDelete(r, hasOrders)
  \/ \E r \in Slots, target \in Managed, flag \in FlagInputs : UserStatusFind(r, target, flag)
  \/ \E r \in Slots : UserStatusSave(r)
  \/ Deliver

SpecAdmins == Init /\ [][NextAdmins]_vars

(***************************************************************************)
(* Properties.                                                             *)
(***************************************************************************)
\* the records of principal u in store S
Of(S, u) == {i \in DOMAIN S : S[i].user = u}

\* those of them with status = active and endDate > t
EffectivelyActive(S, u, t) == {i \in Of(S, u) : IsActive(S[i], t)}

Conflict == Response("subscribe", 400, "You already have an active subscription")

\* C1: in every reachable state, whatever requests the principals and the
\* admins have sent and however much time has passed, each principal has at
\* most one record with status = active and endDate > now.
C1_AtMostOneActiveEver ==
  \A u \in Users : Cardinality(EffectivelyActive(subs, u, now)) <= 1

\* C2: the write step of a subscribe request that observed no active
\* subscription does not look again: it answers 201 and adds a record of the
\* principal with status = active and endDate > now, whatever the principal
\* holds by then, so that the principal has one more such record than before.
C2_WriteDoesNotLookAgain ==
  [][\A r \in Slots :
       (reqs[r].op = "subscribe" /\ ~reqs[r].flag /\ SubscribeSave(r))
         => /\ resp'.code = 201
            /\ nextId \in DOMAIN subs' /\ nextId \notin DOMAIN subs
            /\ subs'[nextId].user = reqs[r].user
            /\ IsActive(subs'[nextId], now)
            /\ Cardinality(EffectivelyActive(subs', reqs[r].user, now))
                 = Cardinality(EffectivelyActive(subs, reqs[r].user, now)) + 1]_vars

\* C2's case: two subscribe requests of one principal have both been answered
\* 201 and the principal holds two records with status = active and endDate > now.
C2_TwoActiveAfterRace ==
  /\ resp.op = "subscribe" /\ resp.code = 201
  /\ \E u \in Subscribers : Cardinality(EffectivelyActive(subs, u, now)) = 2

\* C3: with every request handled in one step and only subscribe, cancel,
\* setAutoRenew and the clock, each principal has at most one record with
\* status = active and endDate > now.
C3_AtMostOneActive ==
  \A u \in Users : Cardinality(EffectivelyActive(subs, u, now)) <= 1

\* C3's case: subscribe has refused a principal that holds an expired record
\* still stored as active and a newer one in force.
C3_CheckRefused ==
  /\ resp = Conflict
  /\ \E u \in Subscribers :
       /\ Of(subs, u) = DOMAIN subs
       /\ Cardinality(FindActive(subs, u)) = 2
       /\ Cardinality(EffectivelyActive(subs, u, now)) = 1

\* C4: subscribe with a valid plan by a principal that has a record with
\* status = active and endDate > now is answered 400 'You already have an
\* active subscription' and changes no record and creates none.
C4_SubscribeConflict ==
  [][\A u \in Subscribers, plan \in ValidPlans :
       (EffectivelyActive(subs, u, now) # {} /\ Subscribe(u, plan))
         => (resp' = Conflict /\ subs' = subs /\ nextId' = nextId)]_vars

\* C4's case: the refusal has been sent to a principal with a subscription in force.
C4_Refused ==
  /\ resp = Conflict
  /\ \E u \in Subscribers : Of(subs, u) = DOMAIN subs /\ EffectivelyActive(subs, u, now) # {}

\* C5: subscribe with a valid plan by a principal whose only record has
\* endDate <= now, whatever its status, is answered 201 and adds one record
\* with status = active, startDate = now and endDate = now + the plan's
\* duration, leaving the old record as it was.
C5_SubscribeAfterExpiry ==
  [][\A u \in Subscribers, plan \in ValidPlans :
       ( /\ Cardinality(Of(subs, u)) = 1
         /\ \A i \in Of(subs, u) : subs[i].endDate <= now
         /\ Subscribe(u, plan) )
         => /\ resp'.code = 201
            /\ \A i \in DOMAIN subs : i \in DOMAIN subs' /\ subs'[i] = subs[i]
            /\ \E j \in DOMAIN subs' :
                 /\ DOMAIN subs' = DOMAIN subs \cup {j} /\ j \notin DOMAIN subs
                 /\ subs'[j].user = u /\ subs'[j].plan = plan
                 /\ subs'[j].status = "active"
                 /\ subs'[j].startDate = now
                 /\ subs'[j].endDate = now + PlanDuration(plan)]_vars

\* C5's case: subscribe has succeeded for a principal whose old record is
\* past its end and stored as pending.
C5_SubscribedAfterExpiry ==
  /\ resp.op = "subscribe" /\ resp.code = 201
  /\ \E u \in Subscribers :
       /\ Cardinality(Of(subs, u)) = 2
       /\ \E i, j \in Of(subs, u) :
            /\ subs[i].status = "pending" /\ subs[i].endDate <= now
            /\ subs[j].status = "active" /\ subs[j].startDate = now

\* C6: a cancel that succeeds sets the record it selected to status =
\* cancelled and autoRenew = false in one step, and a cancel the same
\* principal sends right after it is answered 404.
C6_SecondCancelNotFound ==
  [][\A u \in Subscribers :
       (Cancel(u) /\ resp'.code = 200)
         => /\ \E d \in FindActive(subs, u) :
                 /\ subs' = [subs EXCEPT ![d].status = "cancelled", ![d].autoRenew = FALSE]
            /\ \A d \in FindOne(FindActive(subs', u)) :
                 CancelTail(subs', nextId', u, d, Loaded(subs', d)).resp.code = 404]_vars

\* the rule of the permission gate: role admin, or the tag in the permission list
Allowed(user, tag) ==
  user.role = "admin" \/ (user.perms.kind = "list" /\ tag \in user.perms.tags)

\* C7: the gate lets a request through exactly when the principal adminAuth
\* loaded has role admin or holds the tag in its permission list, whatever
\* the stored permissions of an admin are, and answers 403 otherwise.
C7_GateIffAdminOrTag ==
  [][\A r \in Slots, tag \in Tags :
       AdminGet(r, tag)
         => /\ resp'.code = 200 <=> Allowed(reqs[r].snap, tag)
            /\ resp'.code = 403 <=> ~Allowed(reqs[r].snap, tag)]_vars

\* C7's case: a gated route has answered 200 while the admin's stored
\* permissions are missing and the manager's are missing too.
C7_AdminWithoutListAllowed ==
  /\ resp = Response("get", 200, "")
  /\ users["u1"] = User("admin", Missing)
  /\ users["u2"] = User("manager", Missing)

\* C8: the write of a role-change request whose actor is its target never
\* takes the stored role of that principal away from admin.
C8_NeverLeavesAdminByItself ==
  [][\A r \in Slots :
       ( /\ reqs[r].op = "role" /\ reqs[r].user = reqs[r].target
         /\ users[reqs[r].target].role = "admin"
         /\ RoleSave(r) )
         => users'[reqs[r].target].role = "admin"]_vars

\* C9 as stated: the write of a role-change request whose actor was loaded
\* with a role other than admin changes no principal's role or permissions.
C9_NonAdminNeverModifies ==
  [][\A r \in Slots :
       (reqs[r].op = "role" /\ reqs[r].as # "admin" /\ RoleSave(r)) => users' = users]_vars

\* C9: a role-change request whose actor, as adminAuth loaded it, neither has
\* role admin nor holds manage_permissions is answered 403 before anything is
\* loaded or written, and the roles and permissions change only by the write
\* of a role-change request that passed the gate.
C9_OnlyThroughTheGate ==
  [][/\ \A r \in Slots :
          (reqs[r].op = "authed" /\ ~Allowed(reqs[r].snap, "manage_permissions"))
            => \A target \in Targets, role \in RoleInputs, perms \in PermissionInputs :
                 RoleFind(r, target, role, perms)
                   => /\ resp' = Response("role", 403, GateMessage("manage_permissions"))
                      /\ reqs'[r] = Idle
                      /\ users' = users
     /\ users' # users => \E r \in Slots : reqs[r].op = "role" /\ RoleSave(r)]_vars

\* C9's case: the gate has refused a role change while a manager or staff
\* principal holds manage_permissions by an admin's grant.
C9_RefusedAtTheGate ==
  /\ resp = Response("role", 403, GateMessage("manage_permissions"))
  /\ \E u \in DOMAIN users :
       /\ users[u].role \in {"manager", "staff"}
       /\ users[u].perms = List({"manage_permissions"})

\* C10: an extend or setStatus request by a principal whose role is not
\* admin is refused and changes no subscription.
C10_ExtendAndSetStatusAdminOnly ==
  [][\A a \in Users, id \in SubIds :
       ( /\ users[a].role # "admin"
         /\ \/ \E days \in DaysInputs : Extend(a, id, days)
            \/ \E status \in StatusInputs : SetStatus(a, id, status) )
         => (resp'.code # 200 /\ subs' = subs)]_vars

\* the numbers of days the extend requests of the model carry
ExtendDays == {d.n : d \in {x \in DaysInputs : ~InvalidDays(x)}}

\* C11 as stated: every record's endDate equals its startDate plus the
\* duration of its plan.
C11_EndIsStartPlusDuration ==
  \A i \in DOMAIN subs : subs[i].endDate = subs[i].startDate + PlanDuration(subs[i].plan)

\* C11: a record is created with endDate = startDate + the duration of its
\* plan; afterwards its startDate and plan never change, and its endDate
\* changes only by a successful extend, which adds the days of the request,
\* so that endDate >= startDate + the duration of the plan throughout.
C11_EndMovesOnlyByExtend ==
  [][\A i \in DOMAIN subs' :
       IF i \notin DOMAIN subs
         THEN subs'[i].endDate = subs'[i].startDate + PlanDuration(subs'[i].plan)
         ELSE /\ subs'[i].startDate = subs[i].startDate
              /\ subs'[i].plan = subs[i].plan
              /\ subs[i].endDate >= subs[i].startDate + PlanDuration(subs[i].plan)
              /\ \/ subs'[i].endDate = subs[i].endDate
                 \/ /\ resp'.op = "extend" /\ resp'.code = 200
                    /\ subs'[i].endDate - subs[i].endDate \in ExtendDays]_vars

\* C11's case: an extend has been answered 200 and the record's endDate is
\* past its startDate plus the duration of its plan.
C11_Extended ==
  /\ resp.op = "extend" /\ resp.code = 200
  /\ \E i \in DOMAIN subs : subs[i].endDate > subs[i].startDate + PlanDuration(subs[i].plan)

\* the operations with guards: subscribe, cancel, setAutoRenew and extend
GuardedOps == {"subscribe", "cancel", "autoRenew", "extend"}

\* C12: a step of subscribe, cancel, setAutoRenew or extend changes the
\* stored status of a record only from active to cancelled, and that by
\* cancel; a record it creates has status active and subscribe creates it.  So
\* a cancelled, expired or pending record keeps its status, and none becomes
\* pending, whatever an admin's setStatus or bulk action stored before.
C12_OnlyActiveToCancelled ==
  [][resp'.op \in GuardedOps
       => /\ DOMAIN subs \subseteq DOMAIN subs'
          /\ \A i \in DOMAIN subs' :
               IF i \notin DOMAIN subs
                 THEN subs'[i].status = "active" /\ resp'.op = "subscribe"
                 ELSE \/ subs'[i].status = subs[i].status
                      \/ /\ subs[i].status = "active" /\ subs'[i].status = "cancelled"
                         /\ resp'.op = "cancel"]_vars

\* C12's case: an extend has been answered 200 for a record stored as
\* expired or cancelled, which is still stored so.
C12_ExtendedButStillTerminal ==
  /\ resp.op = "extend" /\ resp.code = 200
  /\ DOMAIN subs = {1}
  /\ subs[1].status \in {"expired", "cancelled"}
  /\ subs[1].endDate > subs[1].startDate + PlanDuration(subs[1].plan)

\* C13: an extend request that passes adminAuth, for a stored record,
\* with days > 0 is answered 200 and adds exactly days to the record's
\* endDate, changing nothing else, whatever the record's status; with days
\* zero, negative or missing it is answered 400 'Invalid number of days' and
\* changes nothing.
C13_ExtendAddsDays ==
  [][resp'.op = "extend"
       => \A a \in Users, id \in SubIds, days \in DaysInputs :
            (AdminAuth(users, a) = 200 /\ id \in DOMAIN subs /\ Extend(a, id, days))
              => IF days.given /\ days.n > 0
                   THEN /\ resp'.code = 200
                        /\ subs' = [subs EXCEPT ![id].endDate = subs[id].endDate + days.n]
                   ELSE /\ resp' = Response("extend", 400, "Invalid number of days")
                        /\ subs' = subs]_vars

\* C13's case: an extend has been answered 200 for a record stored as
\* pending, whose endDate is one extension past where subscribe put it.
C13_PendingExtended ==
  /\ resp.op = "extend" /\ resp.code = 200
  /\ DOMAIN subs = {1}
  /\ subs[1].status = "pending"
  /\ subs[1].endDate = subs[1].startDate + PlanDuration(subs[1].plan) + Step

\* C14: setAutoRenew by a principal with no record stored as active is
\* answered 404 and changes nothing; otherwise it is answered 200 and sets
\* autoRenew of one record of the principal stored as active to the flag,
\* changing no other field and no other record.
C14_AutoRenewOnly ==
  [][resp'.op = "autoRenew"
       => \A u \in Subscribers, flag \in BOOLEAN :
            SetAutoRenew(u, flag)
              => IF FindActive(subs, u) = {}
                   THEN /\ resp' = Response("autoRenew", 404, "No active subscription found")
                        /\ subs' = subs
                   ELSE /\ resp'.code = 200
                        /\ \E d \in FindActive(subs, u) :
                             subs' = [subs EXCEPT ![d].autoRenew = flag]]_vars

\* C14's case: setAutoRenew has been answered 200 and one of the two
\* records the principal has stored as active has autoRenew off, the other on.
C14_OneOfTwoSwitched ==
  /\ resp.op = "autoRenew" /\ resp.code = 200
  /\ \E u \in Subscribers :
       /\ Cardinality(FindActive(subs, u)) = 2
       /\ \E i, j \in FindActive(subs, u) : ~subs[i].autoRenew /\ subs[j].autoRenew

\* C15 as stated: a record stored as active is effectively active exactly
\* at the times before its startDate plus the duration of its plan.
C15_ActiveUntilStartPlusDuration ==
  \A i \in DOMAIN subs :
    subs[i].status = "active"
      => (IsActive(subs[i], now) <=> now < subs[i].startDate + PlanDuration(subs[i].plan))

\* C15: a record stored as active whose endDate is where subscribe put it is
\* effectively active exactly at the times before startDate plus the duration
\* of its plan (an extended one, before its later endDate); the passage of
\* time changes no record, and a stored status changes only by cancel,
\* setStatus or a bulk action.
C15_NoSweep ==
  [][/\ now' # now => subs' = subs
     /\ \A i \in DOMAIN subs' :
          /\ (i \in DOMAIN subs /\ subs'[i].status # subs[i].status)
               => resp'.op \in {"cancel", "setStatus", "bulk"}
          /\ subs'[i].status = "active"
               => /\ IsActive(subs'[i], now') <=> now' < subs'[i].endDate
                  /\ subs'[i].endDate = subs'[i].startDate + PlanDuration(subs'[i].plan)
                       => (IsActive(subs'[i], now')
                             <=> now' < subs'[i].startDate + PlanDuration(subs'[i].plan))]_vars

\* C15's case: the clock has passed the end of a record that was never
\* extended, and the record is still stored as active.
C15_PastEndStillStoredActive ==
  /\ resp = NoResponse
  /\ \E i \in DOMAIN subs :
       /\ subs[i].status = "active"
       /\ subs[i].endDate = subs[i].startDate + PlanDuration(subs[i].plan)
       /\ now > subs[i].endDate
       /\ ~IsActive(subs[i], now)

\* C16 as stated: a record leaves the store only by the bulk action delete.
C16_OnlyBulkRemoves ==
  [][(DOMAIN subs \ DOMAIN subs' # {}) => resp' = Response("bulk", 200, "Bulk delete completed successfully")]_vars

\* C16: subscribe, cancel, setAutoRenew, extend, setStatus and the bulk
\* actions cancel and activate remove no record; a record leaves the store
\* only by DELETE /:id or by the bulk action delete.
C16_OnlyDeletesRemove ==
  [][(DOMAIN subs \ DOMAIN subs' # {})
       => \/ resp' = Response("bulk", 200, "Bulk delete completed successfully")
          \/ /\ resp' = Response("delete", 200, "Subscription deleted successfully")
             /\ Cardinality(DOMAIN subs \ DOMAIN subs') = 1]_vars

\* C16's case: DELETE /:id has been answered 200 and the one record ever
\* created is gone.
C16_DeletedById ==
  /\ resp = Response("delete", 200, "Subscription deleted successfully")
  /\ nextId = 2
  /\ DOMAIN subs = {}

\* the table of default permissions, row by row
DefaultRow(role) ==
  CASE role = "admin" -> {"view_dashboard", "manage_books", "manage_orders", "manage_users",
                          "view_analytics", "manage_settings", "export_data", "manage_permissions"}
    [] role = "manager" -> {"view_dashboard", "manage_books", "manage_orders", "view_analytics",
                            "export_data"}
    [] role = "staff" -> {"view_dashboard", "manage_books", "manage_orders"}
    [] role = "user" -> {}

\* C17: with role-change requests handled one at a time, the write of a
\* request stores the role of the request in the target and, as the
\* target's permissions, the list of the request when it carries one (an
\* empty one included) and the default row of the new role when it carries
\* none; no other principal changes.
C17_StoredPermissions ==
  [][(reqs[1].op = "role" /\ RoleSave(1))
       => /\ resp'.code = 200
          /\ users' = [users EXCEPT ![reqs[1].target] =
                         User(reqs[1].role,
                              IF reqs[1].perms.kind = "list"
                                THEN reqs[1].perms
                                ELSE List(DefaultRow(reqs[1].role)))]]_vars

\* C17's case: role changes have been written and the manager now has role
\* user with an empty list while the first admin has role staff with the
\* row of staff.
C17_RowsStored ==
  /\ resp = Response("role", 200, "User role updated successfully")
  /\ users["u2"] = User("user", List({}))
  /\ users["u1"] = User("staff", List({"view_dashboard", "manage_books", "manage_orders"}))

\* C18: once a cancel of a principal has been answered 200, the principal
\* has no record with status = active and endDate > now.
C18_NothingInForceAfterCancel ==
  [][(resp'.op = "cancel" /\ resp'.code = 200)
       => \A u \in Subscribers : Cancel(u) => EffectivelyActive(subs', u, now') = {}]_vars

\* C19: at least one principal with role admin is stored.
C19_AnAdminRemains ==
  \E u \in DOMAIN users : users[u].role = "admin"

====
